---- MODULE Spec2Model ----
(***************************************************************************)
(* Webhook ingestion pipeline of mono-mcp: signature verification,         *)
(* event dispatch and the account / transaction / webhook-event stores.    *)
(*                                                                         *)
(* Python values are modelled as tagged records so that None, strings,     *)
(* numbers and dicts can live in the same collection:                      *)
(*   None            [t |-> "none"]                                        *)
(*   "abc"           [t |-> "str",  s |-> "abc"]                           *)
(*   5               [t |-> "num",  n |-> 5]                               *)
(*   {"k": v}        [t |-> "dict", o |-> [k \in {"k"} |-> v]]             *)
(* Timestamps (created_at / updated_at) are not modelled.                  *)
(***************************************************************************)
EXTENDS Naturals, Sequences, FiniteSets

VARIABLES WEBHOOK_SECRET, db, last

vars == <<WEBHOOK_SECRET, db, last>>

(***************************************************************************)
(* Bounds                                                                  *)
(***************************************************************************)
\* length of a hex digest in the model (64 for SHA-256)
HexLen == 2

\* number of rows the webhook event log may grow to
MaxEvents == 1

\* largest `limit` get_recent_transactions is called with
MaxLimit == 2

\* longest list store_transactions is called with
MaxBatch == 2

\* number of rows the webhook event log may grow to when webhook requests
\* and direct store calls are mixed
MaxLog == 2

(***************************************************************************)
(* Python values                                                           *)
(***************************************************************************)
None == [t |-> "none"]

Str(s) == [t |-> "str", s |-> s]

Num(n) == [t |-> "num", n |-> n]

Dict(f) == [t |-> "dict", o |-> f]

Bool(b) == [t |-> "bool", b |-> b]

List(items) == [t |-> "list", items |-> items]

EmptyDict == Dict([k \in {} |-> None])

\* marks a key that is left out when a dict literal is built
Missing == [t |-> "missing"]

\* dict literal from a record; fields equal to Missing are left out
MkDict(f) == Dict([k \in {x \in DOMAIN f : f[x] # Missing} |-> f[k]])

IsDict(v) == v.t = "dict"

IsStr(v) == v.t = "str"

\* Python truthiness (`if x`, `not x`)
Truthy(v) ==
    CASE v.t = "none" -> FALSE
      [] v.t = "bool" -> v.b
      [] v.t = "list" -> v.items # <<>>
      [] v.t = "str"  -> v.s # ""
      [] v.t = "num"  -> v.n # 0
      [] v.t = "dict" -> DOMAIN v.o # {}
      [] OTHER        -> TRUE

\* dict.get(key, default); the caller checks IsDict(d) first
Get(d, key, default) == IF key \in DOMAIN d.o THEN d.o[key] ELSE default

\* dict.update(other)
Update(d, other) ==
    Dict([k \in DOMAIN d.o \cup DOMAIN other.o |->
             IF k \in DOMAIN other.o THEN other.o[k] ELSE d.o[k]])

(***************************************************************************)
(* Strings of characters: signatures and hex digests                       *)
(***************************************************************************)
\* the lowercase hex digits a digest is written with (two of the sixteen)
HexDigits == <<"0", "f">>

\* a character outside ASCII, as a latin-1 decoded header byte can be
NonAscii == "U+00E9"

SigChars == {HexDigits[i] : i \in 1..Len(HexDigits)} \cup {NonAscii}

IsAscii(sig) == \A i \in 1..Len(sig) : sig[i] # NonAscii

\* every header value of up to HexLen + 1 characters
Signatures == UNION {[1..n -> SigChars] : n \in 0..(HexLen + 1)}

RECURSIVE SetToSeq(_)
SetToSeq(S) ==
    IF S = {} THEN <<>>
    ELSE LET x == CHOOSE y \in S : TRUE IN <<x>> \o SetToSeq(S \ {x})

IndexOf(seq, x) == CHOOSE i \in 1..Len(seq) : seq[i] = x

RECURSIVE Pow2(_)
Pow2(n) == IF n = 0 THEN 1 ELSE 2 * Pow2(n - 1)

(***************************************************************************)
(* Request bodies.  A body is the raw bytes of the request; `bytes` says   *)
(* whether they decode as UTF-8 and parse as JSON, `doc` is what           *)
(* json.loads returns for them.                                            *)
(***************************************************************************)
Body(kind, doc) == [bytes |-> kind, doc |-> doc]

InvalidUtf8Body == Body("invalid_utf8", None)

MalformedJsonBody == Body("malformed_json", None)

JsonBody(doc) == Body("json", doc)

Event(event, data) == MkDict([event |-> event, data |-> data])

AccountIds == {"acc_1", "acc_2"}

CustomerIds == {"cust_1", "cust_2"}

Institution == MkDict([name |-> Str("GTBank"), bankCode |-> Str("058")])

ConnectedDocs ==
    {Event(Str("mono.events.account_connected"), MkDict([id |-> i, customer |-> c])) :
        i \in {Missing, Num(5), Str(""), Str("acc_1")},
        c \in {Str("cust_1")}}
    \cup {Event(Str("mono.events.account_connected"), d) :
            d \in {Missing, None,
                   MkDict([id |-> Str("acc_1"), customer |-> Str("cust_2")]),
                   MkDict([id |-> Str("acc_2"), customer |-> Str("cust_1")]),
                   MkDict([id |-> Str("acc_1"), customer |-> Missing])}}

DataStatus == MkDict([data_status |-> Str("AVAILABLE")])

UpdatedDocs ==
    {Event(Str("mono.events.account_updated"), MkDict([account |-> acc, meta |-> DataStatus])) :
        acc \in {Missing, None,
                 MkDict([id |-> Missing, institution |-> Institution]),
                 MkDict([id |-> Str("acc_1"), institution |-> Institution]),
                 MkDict([id |-> Str("acc_1"), institution |-> Missing]),
                 MkDict([id |-> Str("acc_2"), institution |-> Institution])}}
    \cup {Event(Str("mono.events.account_updated"),
                MkDict([account |-> MkDict([id |-> Str("acc_1"), institution |-> Institution]),
                        meta |-> m])) : m \in {Missing, None}}

UnlinkedDocs ==
    {Event(Str("mono.events.account_unlinked"), MkDict([account |-> acc])) :
        acc \in {Missing, None, EmptyDict} \cup {MkDict([id |-> Str(a)]) : a \in AccountIds}}

JobDocs ==
    {Event(Str("mono.accounts.jobs.update"), MkDict([account |-> a, status |-> s])) :
        a \in {Missing, Str("acc_1")}, s \in {Str("finished"), Str("processing")}}

UnknownDocs ==
    {Event(Str("totally.unknown.kind"),
           MkDict([id |-> Str("acc_1"), customer |-> Str("cust_1")])),
     Event(Str("totally.unknown.kind"), None),
     EmptyDict}

\* valid JSON whose top level is not an object
NonObjectDocs == {Num(5)}

Bodies ==
    {InvalidUtf8Body, MalformedJsonBody}
    \cup {JsonBody(d) : d \in ConnectedDocs \cup UpdatedDocs \cup UnlinkedDocs
                               \cup JobDocs \cup UnknownDocs \cup NonObjectDocs}

BodySeq == SetToSeq(Bodies)

\* a number per body, standing for its bytes
BodyCode == [b \in Bodies |-> IndexOf(BodySeq, b)]

\* the values MONO_WEBHOOK_SECRET may have at start-up: unset, empty, a key
Secrets == {None, Str(""), Str("whsec_1")}

\* the same, with a second key
TwoKeySecrets == Secrets \cup {Str("whsec_2")}

KeySeq == <<Str(""), Str("whsec_1"), Str("whsec_2")>>

(***************************************************************************)
(* Signature verification                                                  *)
(***************************************************************************)
\* hmac.new(key, msg, sha256).hexdigest(): a fixed function of key and
\* message whose value is HexLen lowercase hex digits
hexdigest(key, msg) ==
    LET n == 3 * BodyCode[msg] + IndexOf(KeySeq, key)
    IN  [i \in 1..HexLen |-> HexDigits[((n \div Pow2(i - 1)) % 2) + 1]]

\* compare_digest changed to look at the first character only
compare_digest_first_char(a, b) ==
    IF ~IsAscii(a) \/ ~IsAscii(b) THEN "TypeError"
    ELSE IF a[1] = b[1] THEN "True" ELSE "False"

\* hmac.compare_digest on two str arguments: TypeError unless both are ASCII
compare_digest(a, b) ==
    IF ~IsAscii(a) \/ ~IsAscii(b) THEN "TypeError"
    ELSE IF a = b THEN "True" ELSE "False"

\* verify_webhook_signature changed to key the HMAC with the empty string
verify_with_empty_key(payload, signature) ==
    IF ~Truthy(WEBHOOK_SECRET) THEN "False"
    ELSE IF signature = <<>> THEN "False"
    ELSE LET expected_signature == hexdigest(Str(""), payload)
         IN  IF Len(signature) # Len(expected_signature) THEN "False"
             ELSE compare_digest(signature, expected_signature)

\* verify_webhook_signature changed to go on when the secret is empty
verify_without_secret_check(payload, signature) ==
    IF WEBHOOK_SECRET = None THEN "False"
    ELSE IF signature = <<>> THEN "False"
    ELSE LET expected_signature == hexdigest(WEBHOOK_SECRET, payload)
         IN  IF Len(signature) # Len(expected_signature) THEN "False"
             ELSE compare_digest(signature, expected_signature)

verify_webhook_signature(payload, signature) ==
    IF ~Truthy(WEBHOOK_SECRET) THEN "False"
    ELSE IF signature = <<>> THEN "False"
    ELSE LET expected_signature == hexdigest(WEBHOOK_SECRET, payload)
         IN  IF Len(signature) # Len(expected_signature) THEN "False"
             ELSE compare_digest(signature, expected_signature)

(***************************************************************************)
(* The store (MonoBankingDB).  A store state is a record of three tables:  *)
(*   accounts        set of rows, at most one per id                       *)
(*   transactions    set of rows, at most one per id                       *)
(*   webhook_events  sequence of rows in insertion order                   *)
(* Every method takes the store state S and `ok`, which is FALSE when the  *)
(* engine raises inside the method (connection lost, database locked),     *)
(* and returns its return value together with the store state it leaves.   *)
(***************************************************************************)
EmptyDB == [accounts |-> {}, transactions |-> {}, webhook_events |-> <<>>]

AccountColumns ==
    {"id", "customer_id", "account_number", "account_name", "bank_name",
     "bank_code", "account_type", "currency", "bvn", "status"}

\* Mapped[str] columns are NOT NULL, Mapped[Optional[str]] columns are not
AccountNotNull == AccountColumns \ {"bvn"}

TransactionColumns ==
    {"id", "account_id", "amount", "type", "description", "reference",
     "date", "balance", "category"}

TransactionNotNull == {"id", "account_id", "amount", "type", "date", "balance"}

\* a value the driver can bind to a column
Bindable(v) == v.t \in {"none", "str", "num"}

\* the INSERT / UPDATE of a row passes the table's constraints
Flushes(row, notnull) ==
    /\ \A c \in DOMAIN row : Bindable(row[c])
    /\ \A c \in notnull : row[c] # None

\* a method returns `ret`, leaving the store state S
Result(ret, S) == [ret |-> ret, db |-> S, raised |-> FALSE]

\* an exception leaves a method, the store state being S
Escapes(S) == [ret |-> FALSE, db |-> S, raised |-> TRUE]

\* store_account changed to let the engine's exception through
store_account_unguarded(S, account_data, ok) ==
    LET key   == Get(account_data, "id", None)
        found == {r \in S.accounts : r.id = key}
        fresh == [c \in AccountColumns |->
                    IF c \in DOMAIN account_data.o THEN account_data.o[c]
                    ELSE IF c = "status" THEN Str("active") ELSE None]
    IN  IF ~ok THEN Escapes(S)
        ELSE IF found = {}
        THEN IF DOMAIN account_data.o \subseteq AccountColumns
                /\ Flushes(fresh, AccountNotNull)
             THEN Result(TRUE, [S EXCEPT !.accounts = @ \cup {fresh}])
             ELSE Result(FALSE, S)
        ELSE LET account == CHOOSE r \in found : TRUE
                 merged  == [c \in AccountColumns |->
                               IF c \in DOMAIN account_data.o
                               THEN account_data.o[c] ELSE account[c]]
             IN  IF Flushes(merged, AccountNotNull)
                 THEN Result(TRUE, [S EXCEPT !.accounts = (@ \ {account}) \cup {merged}])
                 ELSE Result(FALSE, S)

store_account(S, account_data, ok) ==
    LET key   == Get(account_data, "id", None)
        found == {r \in S.accounts : r.id = key}
        fresh == [c \in AccountColumns |->
                    IF c \in DOMAIN account_data.o THEN account_data.o[c]
                    ELSE IF c = "status" THEN Str("active") ELSE None]
    IN  IF ~ok THEN Result(FALSE, S)
        ELSE IF found = {}
        THEN IF DOMAIN account_data.o \subseteq AccountColumns
                /\ Flushes(fresh, AccountNotNull)
             THEN Result(TRUE, [S EXCEPT !.accounts = @ \cup {fresh}])
             ELSE Result(FALSE, S)
        ELSE LET account == CHOOSE r \in found : TRUE
                 merged  == [c \in AccountColumns |->
                               IF c \in DOMAIN account_data.o
                               THEN account_data.o[c] ELSE account[c]]
             IN  IF Flushes(merged, AccountNotNull)
                 THEN Result(TRUE, [S EXCEPT !.accounts = (@ \ {account}) \cup {merged}])
                 ELSE Result(FALSE, S)

\* get_account changed to query without the primary key
get_account_any(S, account_id, ok) ==
    IF ~ok \/ S.accounts = {} THEN None
    ELSE Dict(CHOOSE r \in S.accounts : TRUE)

get_account(S, account_id, ok) ==
    LET found == {r \in S.accounts : r.id = account_id}
    IN  IF ~ok \/ found = {} THEN None
        ELSE Dict(CHOOSE r \in found : TRUE)

\* json.dumps(data): the JSON text of a value
dumps(data) == [t |-> "str", json |-> data]

\* the primary key changed to a constant
NextEventId_constant(events) == 1

\* autoincrement primary key
NextEventId(events) ==
    IF events = <<>> THEN 1
    ELSE 1 + (CHOOSE m \in {events[i].id : i \in 1..Len(events)} :
                 \A i \in 1..Len(events) : events[i].id <= m)

store_webhook_event(S, event_type, account_id, data, ok) ==
    IF ~ok \/ ~Bindable(account_id) THEN Result(FALSE, S)
    ELSE Result(TRUE,
                [S EXCEPT !.webhook_events =
                    Append(@, [id         |-> NextEventId(@),
                               event_type |-> event_type,
                               account_id |-> account_id,
                               data       |-> dumps(data),
                               processed  |-> FALSE])])

\* the loop body changed to add a row without looking for the id
UpsertTransaction_always_adds(rows, account_id, txn) ==
    rows \cup {[id          |-> Get(txn, "_id", None),
                account_id  |-> account_id,
                amount      |-> Get(txn, "amount", None),
                type        |-> Get(txn, "type", None),
                description |-> Get(txn, "narration", None),
                reference   |-> Get(txn, "reference", None),
                date        |-> Get(txn, "date", None),
                balance     |-> Get(txn, "balance", None),
                category    |-> Get(txn, "category", None)]}

\* one pass of the loop body of store_transactions
UpsertTransaction(rows, account_id, txn) ==
    LET found == {r \in rows : r.id = Get(txn, "_id", None)}
        row   == [id          |-> Get(txn, "_id", None),
                  account_id  |-> account_id,
                  amount      |-> Get(txn, "amount", None),
                  type        |-> Get(txn, "type", None),
                  description |-> Get(txn, "narration", None),
                  reference   |-> Get(txn, "reference", None),
                  date        |-> Get(txn, "date", None),
                  balance     |-> Get(txn, "balance", None),
                  category    |-> Get(txn, "category", None)]
    IN  (rows \ found) \cup {row}

\* the loop of store_transactions; FALSE in `ret` when a row fails to flush
RECURSIVE UpsertAll(_, _, _)
UpsertAll(rows, account_id, transactions) ==
    IF transactions = <<>> THEN [ret |-> TRUE, rows |-> rows]
    ELSE LET txn  == Head(transactions)
             next == IF IsDict(txn) THEN UpsertTransaction(rows, account_id, txn) ELSE rows
         IN  IF ~IsDict(txn) \/ \E r \in next : ~Flushes(r, TransactionNotNull)
             THEN [ret |-> FALSE, rows |-> rows]
             ELSE UpsertAll(next, account_id, Tail(transactions))

\* store_transactions changed to commit after every row
store_transactions_commit_each(S, account_id, transactions, ok) ==
    LET r == UpsertAll(S.transactions, account_id, transactions)
    IN  IF ~ok THEN Result(FALSE, S)
        ELSE Result(r.ret, [S EXCEPT !.transactions = r.rows])

store_transactions(S, account_id, transactions, ok) ==
    LET r == UpsertAll(S.transactions, account_id, transactions)
    IN  IF ~ok \/ ~r.ret THEN Result(FALSE, S)
        ELSE Result(TRUE, [S EXCEPT !.transactions = r.rows])

\* remove_account changed to leave the account's transactions in place
remove_account_keeps_transactions(S, account_id, ok) ==
    IF ~ok \/ ~Bindable(account_id) THEN Result(FALSE, S)
    ELSE Result(TRUE, [S EXCEPT !.accounts = {r \in @ : r.id # account_id}])

remove_account(S, account_id, ok) ==
    IF ~ok \/ ~Bindable(account_id) THEN Result(FALSE, S)
    ELSE Result(TRUE,
                [S EXCEPT !.accounts     = {r \in @ : r.id # account_id},
                          !.transactions = {r \in @ : r.account_id # account_id}])

\* the dates transactions carry, in the order text compares them
Dates == <<"2024-01-01", "2024-01-10", "2024-01-15">>

\* a < b on the text of two date columns
DateLess(a, b) == IndexOf(Dates, a.s) < IndexOf(Dates, b.s)

Min(a, b) == IF a <= b THEN a ELSE b

\* ORDER BY date DESC changed to ascending order
OrderByDateAsc(rows) ==
    {p \in [1..Cardinality(rows) -> rows] :
        /\ \A i, j \in DOMAIN p : i # j => p[i] # p[j]
        /\ \A i \in DOMAIN p : i < Len(p) => ~DateLess(p[i + 1].date, p[i].date)}

\* the orders in which ORDER BY date DESC may return a set of rows (rows
\* of equal date come in an order SQL leaves open)
OrderByDateDesc(rows) ==
    {p \in [1..Cardinality(rows) -> rows] :
        /\ \A i, j \in DOMAIN p : i # j => p[i] # p[j]
        /\ \A i \in DOMAIN p : i < Len(p) => ~DateLess(p[i].date, p[i + 1].date)}

\* the lists get_recent_transactions may return
get_recent_transactions(S, account_id, limit, ok) ==
    IF ~ok \/ ~Bindable(account_id) THEN {<<>>}
    ELSE {SubSeq(p, 1, Min(limit, Len(p))) :
            p \in OrderByDateDesc({r \in S.transactions : r.account_id = account_id})}

(***************************************************************************)
(* Event handlers.  A handler returns                                      *)
(*   raised  TRUE when it ends in an uncaught exception (AttributeError    *)
(*           from calling .get on a value that is not a dict)              *)
(*   db      the store state it leaves                                     *)
(*   calls   the store methods it called, with what each returned          *)
(* `ok` gives, per store method, whether the engine works during the call. *)
(***************************************************************************)
Call(method, ret) == [method |-> method, ret |-> ret]

Raised(S) == [raised |-> TRUE, db |-> S, calls |-> <<>>]

Returned(S, calls) == [raised |-> FALSE, db |-> S, calls |-> calls]

\* handle_account_connected changed to log the event only once it is stored
handle_account_connected_logs_if_stored(S, data, ok) ==
    IF ~IsDict(data) THEN Raised(S)
    ELSE
    LET account_id   == Get(data, "id", None)
        customer_id  == Get(data, "customer", None)
        account_data == MkDict([id          |-> account_id,
                                customer_id |-> customer_id,
                                status      |-> Str("connected")])
        stored       == store_account(S, account_data, ok.store_account)
        logged       == store_webhook_event(stored.db, "account_connected",
                                            account_id, data, ok.store_webhook_event)
    IN  IF stored.ret /\ Truthy(account_id) /\ IsStr(account_id)
        THEN Returned(logged.db, <<Call("store_account", stored.ret),
                                   Call("store_webhook_event", logged.ret)>>)
        ELSE Returned(stored.db, <<Call("store_account", stored.ret)>>)

handle_account_connected(S, data, ok) ==
    IF ~IsDict(data) THEN Raised(S)
    ELSE
    LET account_id   == Get(data, "id", None)
        customer_id  == Get(data, "customer", None)
        account_data == MkDict([id          |-> account_id,
                                customer_id |-> customer_id,
                                status      |-> Str("connected")])
        stored       == store_account(S, account_data, ok.store_account)
        logged       == store_webhook_event(stored.db, "account_connected",
                                            account_id, data, ok.store_webhook_event)
    IN  IF Truthy(account_id) /\ IsStr(account_id)
        THEN Returned(logged.db, <<Call("store_account", stored.ret),
                                   Call("store_webhook_event", logged.ret)>>)
        ELSE Returned(stored.db, <<Call("store_account", stored.ret)>>)

handle_account_updated(S, data, ok) ==
    IF ~IsDict(data) THEN Raised(S)
    ELSE
    LET account_info == Get(data, "account", EmptyDict)
        meta         == Get(data, "meta", EmptyDict)
    IN
    IF ~IsDict(account_info) \/ ~IsDict(meta) THEN Raised(S)
    ELSE
    LET account_id       == Get(account_info, "id", None)
        data_status      == Get(meta, "data_status", None)
        existing_account == get_account(S, account_id, ok.get_account)
        institution      == Get(account_info, "institution", EmptyDict)
    IN
    IF Truthy(existing_account)
    THEN IF ~IsDict(institution) THEN Raised(S)
         ELSE
         LET updated == Update(existing_account,
                               MkDict([status    |-> data_status,
                                       bank_name |-> Get(institution, "name", None),
                                       bank_code |-> Get(institution, "bankCode", None)]))
             stored  == store_account(S, updated, ok.store_account)
             logged  == store_webhook_event(stored.db, "account_updated",
                                            account_id, data, ok.store_webhook_event)
         IN  Returned(logged.db, <<Call("get_account", TRUE),
                                   Call("store_account", stored.ret),
                                   Call("store_webhook_event", logged.ret)>>)
    ELSE LET logged == store_webhook_event(S, "account_updated",
                                           account_id, data, ok.store_webhook_event)
         IN  Returned(logged.db, <<Call("get_account", FALSE),
                                   Call("store_webhook_event", logged.ret)>>)

handle_account_unlinked(S, data, ok) ==
    IF ~IsDict(data) THEN Raised(S)
    ELSE
    LET account_info == Get(data, "account", EmptyDict)
    IN
    IF ~IsDict(account_info) THEN Raised(S)
    ELSE
    LET account_id == Get(account_info, "id", None)
        removed    == remove_account(S, account_id, ok.remove_account)
        logged     == store_webhook_event(removed.db, "account_unlinked",
                                          account_id, data, ok.store_webhook_event)
    IN  IF Truthy(account_id) /\ IsStr(account_id)
        THEN Returned(logged.db, <<Call("remove_account", removed.ret),
                                   Call("store_webhook_event", logged.ret)>>)
        ELSE Returned(removed.db, <<Call("remove_account", removed.ret)>>)

\* handle_job_update changed to leave out the store_webhook_event call
handle_job_update_without_log(S, data, ok) ==
    IF ~IsDict(data) THEN Raised(S) ELSE Returned(S, <<>>)

\* handle_job_update changed to mark the account once its job has finished
handle_job_update_marks_account(S, data, ok) ==
    IF ~IsDict(data) THEN Raised(S)
    ELSE
    LET account_id == Get(data, "account", None)
        marked     == IF Get(data, "status", None) = Str("finished")
                      THEN store_account(S, MkDict([id |-> account_id, status |-> Str("synced")]),
                                         ok.store_account).db
                      ELSE S
        logged     == store_webhook_event(marked, "job_update", account_id, data,
                                          ok.store_webhook_event)
    IN  IF Truthy(account_id) /\ IsStr(account_id)
        THEN Returned(logged.db, <<Call("store_webhook_event", logged.ret)>>)
        ELSE Returned(marked, <<>>)

handle_job_update(S, data, ok) ==
    IF ~IsDict(data) THEN Raised(S)
    ELSE
    LET account_id == Get(data, "account", None)
        logged     == store_webhook_event(S, "job_update", account_id, data,
                                          ok.store_webhook_event)
    IN  IF Truthy(account_id) /\ IsStr(account_id)
        THEN Returned(logged.db, <<Call("store_webhook_event", logged.ret)>>)
        ELSE Returned(S, <<>>)

(***************************************************************************)
(* POST /mono/webhook.  The response of handle_webhook:                    *)
(*   status    HTTP status code                                            *)
(*   verified  what verify_webhook_signature did: "True", "False" or the   *)
(*             exception it raised                                         *)
(*   parsed    "skipped" when json.loads(payload.decode()) was not         *)
(*             reached, else "ok" or the exception it raised               *)
(*   handler   the handler the event was dispatched to, "none" if none     *)
(***************************************************************************)
KnownEvents ==
    {"mono.events.account_connected", "mono.events.account_updated",
     "mono.events.account_unlinked", "mono.accounts.jobs.update"}

Response(status, verified, parsed, handler, S, calls) ==
    [status |-> status, verified |-> verified, parsed |-> parsed,
     handler |-> handler, db |-> S, calls |-> calls]

\* json.loads(payload.decode())
loads(payload) ==
    CASE payload.bytes = "invalid_utf8"   -> "UnicodeDecodeError"
      [] payload.bytes = "malformed_json" -> "JSONDecodeError"
      [] OTHER                            -> "ok"

\* the chain changed to end in `else: await handle_job_update(data)`
Dispatch_else_job_update(S, event_type, data, ok) ==
    CASE event_type = Str("mono.events.account_connected") ->
            [name |-> "handle_account_connected",
             out  |-> handle_account_connected(S, data, ok)]
      [] event_type = Str("mono.events.account_updated") ->
            [name |-> "handle_account_updated",
             out  |-> handle_account_updated(S, data, ok)]
      [] event_type = Str("mono.events.account_unlinked") ->
            [name |-> "handle_account_unlinked",
             out  |-> handle_account_unlinked(S, data, ok)]
      [] OTHER ->
            [name |-> "handle_job_update",
             out  |-> handle_job_update(S, data, ok)]

\* the if / elif chain of handle_webhook
Dispatch(S, event_type, data, ok) ==
    CASE event_type = Str("mono.events.account_connected") ->
            [name |-> "handle_account_connected",
             out  |-> handle_account_connected(S, data, ok)]
      [] event_type = Str("mono.events.account_updated") ->
            [name |-> "handle_account_updated",
             out  |-> handle_account_updated(S, data, ok)]
      [] event_type = Str("mono.events.account_unlinked") ->
            [name |-> "handle_account_unlinked",
             out  |-> handle_account_unlinked(S, data, ok)]
      [] event_type = Str("mono.accounts.jobs.update") ->
            [name |-> "handle_job_update",
             out  |-> handle_job_update(S, data, ok)]
      [] OTHER ->
            [name |-> "none", out |-> Returned(S, <<>>)]

\* what handle_webhook does once the signature verified
Process(S, payload, ok) ==
    LET parsed == loads(payload)
    IN
    IF parsed = "JSONDecodeError" THEN Response(400, "True", parsed, "none", S, <<>>)
    ELSE IF parsed # "ok" THEN Response(500, "True", parsed, "none", S, <<>>)
    ELSE
    LET event_data == payload.doc
    IN
    IF ~IsDict(event_data) THEN Response(500, "True", parsed, "none", S, <<>>)
    ELSE
    LET event_type == Get(event_data, "event", None)
        data       == Get(event_data, "data", EmptyDict)
        d          == Dispatch(S, event_type, data, ok)
    IN  Response(IF d.out.raised THEN 500 ELSE 200,
                 "True", parsed, d.name, d.out.db, d.out.calls)

\* handle_webhook changed to go on after a failed verification
handle_webhook_without_reject(S, payload, signature, ok) ==
    LET verified == verify_webhook_signature(payload, signature)
        r        == Process(S, payload, ok)
    IN  CASE verified = "False" -> [r EXCEPT !.verified = "False"]
          [] verified = "True"  -> r
          [] OTHER              -> Response(500, verified, "skipped", "none", S, <<>>)

handle_webhook(S, payload, signature, ok) ==
    LET verified == verify_webhook_signature(payload, signature)
    IN  CASE verified = "False" -> Response(401, verified, "skipped", "none", S, <<>>)
          [] verified = "True"  -> Process(S, payload, ok)
          [] OTHER              -> Response(500, verified, "skipped", "none", S, <<>>)

(***************************************************************************)
(* State machine.                                                          *)
(*   WEBHOOK_SECRET  the secret read from the environment at start-up      *)
(*   db              the content of the database                           *)
(*   last            the request being answered: its inputs, the response, *)
(*                   and the store state it started from (`before`);       *)
(*                   NoRequest while the server waits for a request        *)
(***************************************************************************)
FullAccount(a, c) ==
    MkDict([id             |-> Str(a),
            customer_id    |-> Str(c),
            account_number |-> Str("0123456789"),
            account_name   |-> Str("John Doe"),
            bank_name      |-> Str("Access Bank"),
            bank_code      |-> Str("044"),
            account_type   |-> Str("SAVINGS"),
            currency       |-> Str("NGN")])

TxnData(i, amount, date) ==
    MkDict([_id       |-> Str(i),
            amount    |-> Num(amount),
            type      |-> Str("debit"),
            narration |-> Str("ATM Withdrawal"),
            date      |-> Str(date),
            balance   |-> Num(490000)])

\* database contents left by earlier runs: accounts linked through
\* store_account, with transactions stored through store_transactions
SeedOne ==
    store_transactions(store_account(EmptyDB, FullAccount("acc_1", "cust_1"), TRUE).db,
                       Str("acc_1"), <<TxnData("txn_1", 10000, "2024-01-15")>>, TRUE).db

SeedTwo ==
    store_transactions(store_account(SeedOne, FullAccount("acc_2", "cust_2"), TRUE).db,
                       Str("acc_2"), <<TxnData("txn_2", 50000, "2024-01-01")>>, TRUE).db

Seeds == {EmptyDB, SeedOne, SeedTwo}

NoRequest == [op |-> "none"]

StoreMethods == {"store_account", "get_account", "remove_account", "store_webhook_event"}

AllOk == [m \in StoreMethods |-> TRUE]

\* the store methods the handler of an event calls
MethodsCalled(payload) ==
    LET event_type == IF payload.bytes = "json" /\ IsDict(payload.doc)
                      THEN Get(payload.doc, "event", None) ELSE None
    IN  CASE event_type = Str("mono.events.account_connected") ->
                {"store_account", "store_webhook_event"}
          [] event_type = Str("mono.events.account_updated") ->
                {"get_account", "store_account", "store_webhook_event"}
          [] event_type = Str("mono.events.account_unlinked") ->
                {"remove_account", "store_webhook_event"}
          [] event_type = Str("mono.accounts.jobs.update") ->
                {"store_webhook_event"}
          [] OTHER -> {}

\* the engine works throughout, or fails during the calls of one method
OkChoices(payload) ==
    {AllOk} \cup {[AllOk EXCEPT ![m] = FALSE] : m \in MethodsCalled(payload)}

\* the signature the provider computes for a body
Sign(payload) ==
    hexdigest(IF IsStr(WEBHOOK_SECRET) THEN WEBHOOK_SECRET ELSE Str("whsec_1"), payload)

\* header values tried per body: the correct one, and one with a digit changed
SignatureChoices(payload) ==
    LET sig == Sign(payload)
    IN  {sig,
         [sig EXCEPT ![HexLen] = IF @ = HexDigits[1] THEN HexDigits[2] ELSE HexDigits[1]]}

\* bodies of the requests that exercise every way a signature can be wrong
VerifyBodies ==
    {InvalidUtf8Body, MalformedJsonBody,
     JsonBody(Event(Str("totally.unknown.kind"), None)),
     JsonBody(Event(Str("mono.events.account_connected"),
                    MkDict([id |-> Str("acc_1"), customer |-> Str("cust_2")])))}

Init ==
    /\ WEBHOOK_SECRET \in Secrets
    /\ db \in Seeds
    /\ last = NoRequest

\* a request to POST /mono/webhook is handled and answered
Respond(payload, signature, ok) ==
    /\ last = NoRequest
    /\ \E r \in {handle_webhook(db, payload, signature, ok)} :
           /\ db' = r.db
           /\ last' = [op        |-> "handle_webhook",
                       payload   |-> payload,
                       signature |-> signature,
                       ok        |-> ok,
                       status    |-> r.status,
                       verified  |-> r.verified,
                       parsed    |-> r.parsed,
                       handler   |-> r.handler,
                       calls     |-> r.calls,
                       before    |-> db]
    /\ UNCHANGED WEBHOOK_SECRET

Webhook(payload, signature, ok) ==
    /\ Len(db.webhook_events) < MaxEvents
    /\ Respond(payload, signature, ok)

\* the response has been sent; the server waits for the next request
Sent ==
    /\ last # NoRequest
    /\ last' = NoRequest
    /\ UNCHANGED <<WEBHOOK_SECRET, db>>

\* webhook deliveries of every modelled event, under store failures
Deliver ==
    \E payload \in Bodies :
        \E signature \in SignatureChoices(payload), ok \in OkChoices(payload) :
            Webhook(payload, signature, ok)

Next == Deliver \/ Sent

Spec == Init /\ [][Next]_vars

\* health_check changed to report whether verification can succeed
health_check_truthy ==
    [status |-> 200,
     body   |-> [status |-> "healthy", service |-> "mono-banking-mcp",
                 webhook_configured |-> Truthy(WEBHOOK_SECRET)]]

\* GET /health
health_check ==
    [status |-> 200,
     body   |-> [status |-> "healthy", service |-> "mono-banking-mcp",
                 webhook_configured |-> WEBHOOK_SECRET # None]]

Health ==
    /\ last = NoRequest
    /\ last' = [op |-> "health_check", ret |-> health_check]
    /\ UNCHANGED <<WEBHOOK_SECRET, db>>

\* webhook requests with every header value
DeliverAny ==
    \E payload \in VerifyBodies, signature \in Signatures :
        Webhook(payload, signature, AllOk)

NextVerify == DeliverAny \/ Health \/ Sent

InitVerify ==
    /\ WEBHOOK_SECRET \in TwoKeySecrets
    /\ db \in Seeds
    /\ last = NoRequest

SpecVerify == InitVerify /\ [][NextVerify]_vars

(***************************************************************************)
(* The store used directly, as the tests and the read paths use it: one    *)
(* action per method of MonoBankingDB.  `last` holds the call being        *)
(* answered: its arguments, what it returned, whether an exception left    *)
(* the method, and the store state it started from.                        *)
(***************************************************************************)
\* the transactions the provider reports
TxnPool ==
    {TxnData("txn_1", 20000, "2024-01-15"), TxnData("txn_3", 10000, "2024-01-10"),
     TxnData("txn_4", 50000, "2024-01-01"),
     MkDict([_id |-> Str("txn_3"), type |-> Str("debit"), date |-> Str("2024-01-10")])}

Batches == UNION {[1..n -> TxnPool] : n \in 0..MaxBatch}

AccountArgs == {Str(a) : a \in AccountIds}

\* account ids as callers pass them, among them one no driver can bind
AnyAccountArgs == AccountArgs \cup {EmptyDict}

AccountDatas ==
    {FullAccount("acc_1", "cust_1"),
     MkDict([id |-> Str("acc_1"), status |-> Str("connected")]),
     MkDict([id |-> Str("acc_2"), customer_id |-> Str("cust_2")])}

Call0(op, args, ok, r, S) ==
    [op |-> op, args |-> args, ok |-> ok, ret |-> r.ret, raised |-> r.raised, before |-> S]

StoreAccount(account_data, ok) ==
    /\ last = NoRequest
    /\ \E r \in {store_account(db, account_data, ok)} :
           /\ db' = r.db
           /\ last' = Call0("store_account", <<account_data>>, ok, r, db)
    /\ UNCHANGED WEBHOOK_SECRET

GetAccount(account_id, ok) ==
    /\ last = NoRequest
    /\ last' = Call0("get_account", <<account_id>>, ok,
                     Result(get_account(db, account_id, ok), db), db)
    /\ UNCHANGED <<WEBHOOK_SECRET, db>>

\* a call of store_webhook_event
LogEvent(event_type, account_id, data, ok) ==
    /\ last = NoRequest
    /\ \E r \in {store_webhook_event(db, event_type, account_id, data, ok)} :
           /\ db' = r.db
           /\ last' = Call0("store_webhook_event", <<event_type, account_id, data>>, ok, r, db)
    /\ UNCHANGED WEBHOOK_SECRET

StoreWebhookEvent(event_type, account_id, data, ok) ==
    /\ Len(db.webhook_events) < MaxEvents
    /\ LogEvent(event_type, account_id, data, ok)

StoreTransactions(account_id, transactions, ok) ==
    /\ last = NoRequest
    /\ \E r \in {store_transactions(db, account_id, transactions, ok)} :
           /\ db' = r.db
           /\ last' = Call0("store_transactions", <<account_id, transactions>>, ok, r, db)
    /\ UNCHANGED WEBHOOK_SECRET

GetRecentTransactions(account_id, limit, ok) ==
    /\ last = NoRequest
    /\ \E result \in get_recent_transactions(db, account_id, limit, ok) :
           last' = Call0("get_recent_transactions", <<account_id, limit>>, ok,
                         Result(result, db), db)
    /\ UNCHANGED <<WEBHOOK_SECRET, db>>

RemoveAccount(account_id, ok) ==
    /\ last = NoRequest
    /\ \E r \in {remove_account(db, account_id, ok)} :
           /\ db' = r.db
           /\ last' = Call0("remove_account", <<account_id>>, ok, r, db)
    /\ UNCHANGED WEBHOOK_SECRET

NextStore ==
    \/ \E account_data \in AccountDatas, ok \in BOOLEAN : StoreAccount(account_data, ok)
    \/ \E account_id \in AnyAccountArgs, ok \in BOOLEAN : GetAccount(account_id, ok)
    \/ \E account_id \in {Str("acc_1"), EmptyDict}, ok \in BOOLEAN :
          StoreWebhookEvent("job_update", account_id, EmptyDict, ok)
    \/ \E account_id \in AccountArgs, transactions \in Batches, ok \in BOOLEAN :
          StoreTransactions(account_id, transactions, ok)
    \/ \E account_id \in AnyAccountArgs, limit \in 0..MaxLimit, ok \in BOOLEAN :
          GetRecentTransactions(account_id, limit, ok)
    \/ \E account_id \in AnyAccountArgs, ok \in BOOLEAN : RemoveAccount(account_id, ok)
    \/ Sent

InitStore ==
    /\ WEBHOOK_SECRET = None
    /\ db \in Seeds
    /\ last = NoRequest

SpecStore == InitStore /\ [][NextStore]_vars

(***************************************************************************)
(* Webhook requests, direct store calls and the get_webhook_events tool    *)
(* against one database.                                                   *)
(***************************************************************************)
\* the methods MonoBankingDB defines
MonoBankingDBMethods ==
    {"store_account", "get_account", "store_webhook_event", "store_transactions",
     "get_recent_transactions", "remove_account"}

\* the get_webhook_events tool: db.get_webhook_events(...) is evaluated
\* inside try; MonoBankingDB has no attribute of that name, so the lookup
\* raises AttributeError and the except clause returns the failure dict
get_webhook_events(S, account_id, limit) ==
    IF "get_webhook_events" \notin MonoBankingDBMethods
    THEN [success |-> FALSE, error |-> "AttributeError", events |-> <<>>]
    ELSE [success |-> TRUE, error |-> "", events |-> <<>>]

GetWebhookEvents(account_id, limit) ==
    /\ last = NoRequest
    /\ last' = [op |-> "get_webhook_events", args |-> <<account_id, limit>>,
                ret |-> get_webhook_events(db, account_id, limit), before |-> db]
    /\ UNCHANGED <<WEBHOOK_SECRET, db>>

\* events delivered with the provider's signature
LogBodies ==
    {JsonBody(Event(Str("mono.events.account_connected"),
                    MkDict([id |-> Str("acc_1"), customer |-> Str("cust_2")]))),
     JsonBody(Event(Str("mono.events.account_unlinked"),
                    MkDict([account |-> MkDict([id |-> Str("acc_1")])]))),
     JsonBody(Event(Str("mono.accounts.jobs.update"),
                    MkDict([account |-> Str("acc_1"), status |-> Str("finished")])))}

LogBatches ==
    {<<TxnData("txn_1", 20000, "2024-01-15")>>, <<TxnData("txn_3", 10000, "2024-01-10")>>}

NextLog ==
    \/ \E payload \in LogBodies :
          /\ Len(db.webhook_events) < MaxLog
          /\ Respond(payload, Sign(payload), AllOk)
    \/ /\ Len(db.webhook_events) < MaxLog
       /\ \E ok \in BOOLEAN : LogEvent("job_update", Str("acc_2"), EmptyDict, ok)
    \/ \E ok \in BOOLEAN : StoreAccount(FullAccount("acc_1", "cust_1"), ok)
    \/ \E account_id \in AccountArgs, transactions \in LogBatches :
          StoreTransactions(account_id, transactions, TRUE)
    \/ \E account_id \in AccountArgs : RemoveAccount(account_id, TRUE)
    \/ GetAccount(Str("acc_1"), TRUE)
    \/ GetRecentTransactions(Str("acc_1"), MaxLimit, TRUE)
    \/ \E account_id \in {None, Str("acc_1")}, limit \in 0..MaxLimit :
          GetWebhookEvents(account_id, limit)
    \/ Sent

InitLog ==
    /\ WEBHOOK_SECRET = Str("whsec_1")
    /\ db \in Seeds
    /\ last = NoRequest

SpecLog == InitLog /\ [][NextLog]_vars

(***************************************************************************)
(* The MCP tools over the remote client.  A MonoClient method either       *)
(* raises (httpx.TimeoutException, httpx.HTTPStatusError from              *)
(* raise_for_status) or returns the provider's JSON.  A tool returns       *)
(*   ret       the dict it returns                                         *)
(*   requests  the MonoClient methods it awaited, in order                 *)
(*   raised    TRUE when an exception leaves the tool                      *)
(***************************************************************************)
Raise(exc) == [raises |-> TRUE, exc |-> exc, json |-> None]

Reply(json) == [raises |-> FALSE, exc |-> "", json |-> json]

\* `result.get("status") and "data" in result`
HasData(result) == Truthy(Get(result, "status", None)) /\ "data" \in DOMAIN result.o

Failure(error) == [success |-> FALSE, error |-> error, bvn_status |-> ""]

Success(bvn_status) == [success |-> TRUE, error |-> "", bvn_status |-> bvn_status]

ToolReturn(ret, requests) == [ret |-> ret, requests |-> requests, raised |-> FALSE]

ToolRaises(requests) == [ret |-> Failure(""), requests |-> requests, raised |-> TRUE]

\* the tool reads fields of data with data.get(...)
ReadsObject(data) == IsDict(data)

\* the tool iterates over data and reads fields of each item
ReadsList(data) ==
    \/ data.t = "list" /\ \A i \in 1..Len(data.items) : IsDict(data.items[i])
    \/ IsDict(data) /\ DOMAIN data.o = {}

\* the shape shared by the tools that await one MonoClient method:
\*   try: result = await method(...); if status and data: format and return
\*   success, else return failure; except Exception as e: return failure
OneCall(method, result, readable, message) ==
    ToolReturn(IF result.raises THEN Failure(result.exc)
               ELSE IF ~IsDict(result.json) THEN Failure("AttributeError")
               ELSE IF ~HasData(result.json) THEN Failure(message)
               ELSE IF readable THEN Success("")
               ELSE Failure("AttributeError"),
               <<method>>)

\* the message a failed provider response carries, or the tool's default
Message(result, default) ==
    IF IsDict(result.json) /\ IsStr(Get(result.json, "message", None))
    THEN Get(result.json, "message", None).s ELSE default

\* data.get(...) of a response that passed HasData
DataOf(result) == result.json.o.data

\* whether the tool can format the data of a response (FALSE when there is none)
CanRead(result, list) ==
    /\ ~result.raises
    /\ IsDict(result.json)
    /\ HasData(result.json)
    /\ IF list THEN ReadsList(DataOf(result)) ELSE ReadsObject(DataOf(result))

list_linked_accounts(result) ==
    OneCall("get_customer_accounts", result, CanRead(result, TRUE),
            "Unable to fetch linked accounts")

get_account_balance(result) ==
    OneCall("get_account_balance", result, CanRead(result, FALSE), "Unable to fetch balance")

verify_account_name(result) ==
    OneCall("resolve_account_name", result, CanRead(result, FALSE),
            Message(result, "Account verification failed"))

verify_payment(result) ==
    OneCall("verify_payment", result, CanRead(result, FALSE),
            Message(result, "Payment verification failed"))

\* get_nigerian_banks changed to await the client outside try
get_nigerian_banks_unguarded(result) ==
    IF result.raises THEN ToolRaises(<<"get_nigerian_banks">>)
    ELSE OneCall("get_nigerian_banks", result, CanRead(result, TRUE),
                 "Unable to fetch banks list")

get_nigerian_banks(result) ==
    OneCall("get_nigerian_banks", result, CanRead(result, TRUE), "Unable to fetch banks list")

get_account_info(result) ==
    OneCall("get_account_info", result, CanRead(result, FALSE), "Unable to fetch account info")

get_transaction_history(result) ==
    OneCall("get_account_transactions", result, CanRead(result, TRUE),
            "Unable to fetch transactions")

\* lookup_bvn passes data on without reading it
lookup_bvn(result) ==
    OneCall("lookup_bvn", result, TRUE, Message(result, "BVN lookup failed"))

initiate_account_linking(result) ==
    OneCall("initiate_account_linking", result, CanRead(result, FALSE),
            Message(result, "Account linking initiation failed"))

\* initiate_payment changed to go on whatever the verification returned
initiate_payment_unverified(verification_result, result) ==
    IF verification_result.raises
    THEN ToolReturn(Failure(verification_result.exc), <<"resolve_account_name">>)
    ELSE IF ~IsDict(verification_result.json)
    THEN ToolReturn(Failure("AttributeError"), <<"resolve_account_name">>)
    ELSE LET sent == <<"resolve_account_name", "initiate_payment">>
         IN  IF result.raises THEN ToolReturn(Failure(result.exc), sent)
             ELSE IF ~IsDict(result.json) THEN ToolReturn(Failure("AttributeError"), sent)
             ELSE IF ~HasData(result.json)
             THEN ToolReturn(Failure(Message(result, "Payment initiation failed")), sent)
             ELSE IF ReadsObject(DataOf(result))
                     /\ CanRead(verification_result, FALSE)
             THEN ToolReturn(Success(""), sent)
             ELSE ToolReturn(Failure("AttributeError"), sent)

initiate_payment(verification_result, result) ==
    IF verification_result.raises
    THEN ToolReturn(Failure(verification_result.exc), <<"resolve_account_name">>)
    ELSE IF ~IsDict(verification_result.json)
    THEN ToolReturn(Failure("AttributeError"), <<"resolve_account_name">>)
    ELSE IF ~HasData(verification_result.json)
    THEN ToolReturn(Failure("Recipient account verification failed"),
                    <<"resolve_account_name">>)
    ELSE LET sent == <<"resolve_account_name", "initiate_payment">>
         IN  IF result.raises THEN ToolReturn(Failure(result.exc), sent)
             ELSE IF ~IsDict(result.json) THEN ToolReturn(Failure("AttributeError"), sent)
             ELSE IF ~HasData(result.json)
             THEN ToolReturn(Failure(Message(result, "Payment initiation failed")), sent)
             ELSE IF ReadsObject(DataOf(result))
                     /\ ReadsObject(DataOf(verification_result))
             THEN ToolReturn(Success(""), sent)
             ELSE ToolReturn(Failure("AttributeError"), sent)

get_account_details(account_result, bvn_result) ==
    IF account_result.raises
    THEN ToolReturn(Failure(account_result.exc), <<"get_account_info">>)
    ELSE IF ~IsDict(account_result.json)
    THEN ToolReturn(Failure("AttributeError"), <<"get_account_info">>)
    ELSE IF ~HasData(account_result.json)
    THEN ToolReturn(Failure("Unable to fetch account details"), <<"get_account_info">>)
    ELSE IF ~ReadsObject(DataOf(account_result))
    THEN ToolReturn(Failure("AttributeError"), <<"get_account_info">>)
    ELSE
    LET account_data   == DataOf(account_result)
        account_number == Get(account_data, "accountNumber", None)
        institution    == Get(account_data, "institution", EmptyDict)
    IN
    IF ~IsDict(institution)
    THEN ToolReturn(Failure("AttributeError"), <<"get_account_info">>)
    ELSE
    LET bank_code == Get(institution, "bankCode", None)
        sent      == <<"get_account_info", "lookup_account_number">>
    IN
    IF ~(Truthy(account_number) /\ Truthy(bank_code))
    THEN ToolReturn(Success("not_available"), <<"get_account_info">>)
    ELSE IF bvn_result.raises THEN ToolReturn(Success("lookup_failed"), sent)
    ELSE IF ~IsDict(bvn_result.json) THEN ToolReturn(Success("lookup_failed"), sent)
    ELSE IF ~HasData(bvn_result.json) THEN ToolReturn(Success("not_available"), sent)
    ELSE IF ReadsObject(DataOf(bvn_result)) THEN ToolReturn(Success("available"), sent)
    ELSE ToolReturn(Success("lookup_failed"), sent)

\* what the provider's API can answer
AccountInfo ==
    MkDict([_id           |-> Str("acc_1"),
            accountNumber |-> Str("0123456789"),
            name          |-> Str("John Doe"),
            institution   |-> Institution])

RemoteResults ==
    {Raise("TimeoutException"), Raise("HTTPStatusError"),
     Reply(MkDict([status |-> Bool(TRUE), data |-> AccountInfo])),
     Reply(MkDict([status |-> Bool(TRUE), data |-> List(<<AccountInfo>>)])),
     Reply(MkDict([status |-> Bool(TRUE), data |-> EmptyDict])),
     Reply(MkDict([status |-> Bool(TRUE), data |-> None])),
     Reply(MkDict([status |-> Bool(TRUE), message |-> Str("ok")])),
     Reply(MkDict([status |-> Bool(FALSE), message |-> Str("Invalid account number")]))}

\* MonoClient.resolve_account_name: the outcome of the first endpoint, or of
\* the v2 endpoint when the first answered with an error status
resolve_account_name(first, second) ==
    IF first.raises /\ first.exc = "HTTPStatusError" THEN second ELSE first

\* MonoClient.get_nigerian_banks: the same fallback to the v2 endpoint
MonoClient_get_nigerian_banks(first, second) ==
    IF first.raises /\ first.exc = "HTTPStatusError" THEN second ELSE first

\* what the MonoClient method a tool awaits first can come out as
ClientResults(name) ==
    IF name \in {"verify_account_name", "initiate_payment"}
    THEN {resolve_account_name(a, b) : a \in RemoteResults, b \in RemoteResults}
    ELSE IF name = "get_nigerian_banks"
    THEN {MonoClient_get_nigerian_banks(a, b) : a \in RemoteResults, b \in RemoteResults}
    ELSE RemoteResults

OneCallTools ==
    {"list_linked_accounts", "get_account_balance", "verify_account_name", "verify_payment",
     "get_nigerian_banks", "get_account_info", "get_transaction_history", "lookup_bvn",
     "initiate_account_linking"}

TwoCallTools == {"initiate_payment", "get_account_details"}

\* the tool `name`, the client's awaited calls coming out as r1 and r2
RunTool(name, r1, r2) ==
    CASE name = "list_linked_accounts"     -> list_linked_accounts(r1)
      [] name = "get_account_balance"      -> get_account_balance(r1)
      [] name = "verify_account_name"      -> verify_account_name(r1)
      [] name = "verify_payment"           -> verify_payment(r1)
      [] name = "get_nigerian_banks"       -> get_nigerian_banks(r1)
      [] name = "get_account_info"         -> get_account_info(r1)
      [] name = "get_transaction_history"  -> get_transaction_history(r1)
      [] name = "lookup_bvn"               -> lookup_bvn(r1)
      [] name = "initiate_account_linking" -> initiate_account_linking(r1)
      [] name = "initiate_payment"         -> initiate_payment(r1, r2)
      [] name = "get_account_details"      -> get_account_details(r1, r2)

Tool(name, r1, r2) ==
    /\ last = NoRequest
    /\ \E t \in {RunTool(name, r1, r2)} :
           last' = [op |-> "tool", name |-> name, remote |-> <<r1, r2>>, ret |-> t.ret,
                    requests |-> t.requests, raised |-> t.raised, before |-> db]
    /\ UNCHANGED <<WEBHOOK_SECRET, db>>

NextTools ==
    \/ \E name \in OneCallTools : \E r1 \in ClientResults(name) : Tool(name, r1, r1)
    \/ \E name \in TwoCallTools : \E r1 \in ClientResults(name), r2 \in RemoteResults :
           Tool(name, r1, r2)
    \/ Sent

InitTools ==
    /\ WEBHOOK_SECRET \in Secrets
    /\ db = EmptyDB
    /\ last = NoRequest

SpecTools == InitTools /\ [][NextTools]_vars

(***************************************************************************)
(* Two webhook handlers on one database, interleaved at their store calls. *)
(* account_updated (server.py 459-479) is get_account, then store_account  *)
(* of the dict it read, then store_webhook_event; the other handler is     *)
(* account_unlinked (remove_account, store_webhook_event) or               *)
(* account_connected (store_account, store_webhook_event).  Each store     *)
(* method opens its own session and commits, so each call is one step      *)
(* and nothing spans two calls.  `last` holds both handlers' positions:    *)
(*   upc, opc   the next store call of account_updated / the other handler *)
(*   existing   the dict account_updated got from get_account              *)
(*   created    its store_account inserted a row that was not there        *)
(*   removed    the unlink's remove_account has returned True              *)
(*   steps      the store calls made so far, in order                      *)
(***************************************************************************)
RaceAccount == Str("acc_1")

\* data of the account_updated events raced
RaceUpdatedData ==
    {MkDict([account |-> MkDict([id |-> RaceAccount, institution |-> i]),
             meta    |-> DataStatus]) : i \in {Institution, Missing}}

RaceUnlinkedData == MkDict([account |-> MkDict([id |-> RaceAccount])])

RaceConnectedData == MkDict([id |-> RaceAccount, customer |-> Str("cust_2")])

\* the dict account_updated passes to store_account
UpdatedAccount(existing_account, data) ==
    LET account_info == Get(data, "account", EmptyDict)
        institution  == Get(account_info, "institution", EmptyDict)
    IN  Update(existing_account,
               MkDict([status    |-> Get(Get(data, "meta", EmptyDict), "data_status", None),
                       bank_name |-> Get(institution, "name", None),
                       bank_code |-> Get(institution, "bankCode", None)]))

\* two deliveries arrive together
RaceStart(other, udata) ==
    /\ last = NoRequest
    /\ Len(db.webhook_events) < MaxLog
    /\ last' = [op       |-> "concurrent",
                other    |-> other,
                udata    |-> udata,
                upc      |-> "get_account",
                opc      |-> IF other = "account_unlinked" THEN "remove_account"
                             ELSE "store_account",
                existing |-> None,
                created  |-> FALSE,
                removed  |-> FALSE,
                steps    |-> <<>>,
                before   |-> db]
    /\ UNCHANGED <<WEBHOOK_SECRET, db>>

\* existing_account = db.get_account(account_id)
UpdatedGetAccount ==
    /\ last.op = "concurrent"
    /\ last.upc = "get_account"
    /\ LET existing_account == get_account(db, RaceAccount, TRUE)
       IN  last' = [last EXCEPT !.existing = existing_account,
                                !.upc = IF Truthy(existing_account) THEN "store_account"
                                        ELSE "store_webhook_event",
                                !.steps = Append(@, "updated.get_account")]
    /\ UNCHANGED <<WEBHOOK_SECRET, db>>

\* existing_account.update({...}); db.store_account(existing_account)
UpdatedStoreAccount ==
    /\ last.op = "concurrent"
    /\ last.upc = "store_account"
    /\ LET stored == store_account(db, UpdatedAccount(last.existing, last.udata), TRUE)
       IN  /\ db' = stored.db
           /\ last' = [last EXCEPT !.upc = "store_webhook_event",
                                   !.created = get_account(db, RaceAccount, TRUE) = None
                                               /\ get_account(stored.db, RaceAccount, TRUE) # None,
                                   !.steps = Append(@, "updated.store_account")]
    /\ UNCHANGED WEBHOOK_SECRET

\* db.store_webhook_event("account_updated", account_id, data)
UpdatedLogEvent ==
    /\ last.op = "concurrent"
    /\ last.upc = "store_webhook_event"
    /\ db' = store_webhook_event(db, "account_updated", RaceAccount, last.udata, TRUE).db
    /\ last' = [last EXCEPT !.upc = "done",
                            !.steps = Append(@, "updated.store_webhook_event")]
    /\ UNCHANGED WEBHOOK_SECRET

\* account_unlinked: success = db.remove_account(account_id)
UnlinkedRemoveAccount ==
    /\ last.op = "concurrent"
    /\ last.other = "account_unlinked"
    /\ last.opc = "remove_account"
    /\ LET removed == remove_account(db, RaceAccount, TRUE)
       IN  /\ db' = removed.db
           /\ last' = [last EXCEPT !.opc = "store_webhook_event",
                                   !.removed = removed.ret,
                                   !.steps = Append(@, "unlinked.remove_account")]
    /\ UNCHANGED WEBHOOK_SECRET

\* account_connected: success = db.store_account(account_data)
ConnectedStoreAccount ==
    /\ last.op = "concurrent"
    /\ last.other = "account_connected"
    /\ last.opc = "store_account"
    /\ db' = store_account(db,
                           MkDict([id          |-> Get(RaceConnectedData, "id", None),
                                   customer_id |-> Get(RaceConnectedData, "customer", None),
                                   status      |-> Str("connected")]),
                           TRUE).db
    /\ last' = [last EXCEPT !.opc = "store_webhook_event",
                            !.steps = Append(@, "connected.store_account")]
    /\ UNCHANGED WEBHOOK_SECRET

\* the other handler's db.store_webhook_event(...)
OtherLogEvent ==
    /\ last.op = "concurrent"
    /\ last.opc = "store_webhook_event"
    /\ db' = IF last.other = "account_unlinked"
             THEN store_webhook_event(db, "account_unlinked", RaceAccount,
                                      RaceUnlinkedData, TRUE).db
             ELSE store_webhook_event(db, "account_connected", RaceAccount,
                                      RaceConnectedData, TRUE).db
    /\ last' = [last EXCEPT !.opc = "done",
                            !.steps = Append(@, "other.store_webhook_event")]
    /\ UNCHANGED WEBHOOK_SECRET

\* both handlers have returned
BothDone == last.op = "concurrent" /\ last.upc = "done" /\ last.opc = "done"

\* both responses have been sent
RaceSent ==
    /\ BothDone
    /\ last' = NoRequest
    /\ UNCHANGED <<WEBHOOK_SECRET, db>>

NextRace ==
    \/ \E other \in {"account_unlinked", "account_connected"}, udata \in RaceUpdatedData :
           RaceStart(other, udata)
    \/ UpdatedGetAccount
    \/ UpdatedStoreAccount
    \/ UpdatedLogEvent
    \/ UnlinkedRemoveAccount
    \/ ConnectedStoreAccount
    \/ OtherLogEvent
    \/ RaceSent

InitRace ==
    /\ WEBHOOK_SECRET = Str("whsec_1")
    /\ db \in Seeds
    /\ last = NoRequest

SpecRace == InitRace /\ [][NextRace]_vars

(***************************************************************************)
(* Properties                                                              *)
(***************************************************************************)
Served == last.op = "handle_webhook"

\* the request carries the lowercase-hex HMAC of its body under the
\* configured secret
CorrectlySigned ==
    /\ Served
    /\ IsStr(WEBHOOK_SECRET)
    /\ last.signature = hexdigest(WEBHOOK_SECRET, last.payload)

\* the number of positions at which two strings of equal length differ
Differences(a, b) == Cardinality({i \in 1..Len(a) : a[i] # b[i]})

\* C1: a request whose signature differs from the lowercase-hex HMAC-SHA256
\* of its raw body under the configured secret (in a character or in
\* length) is not verified, is not dispatched to a handler and is not
\* answered 200.
C1_WrongSignatureRejected ==
    (Served /\ IsStr(WEBHOOK_SECRET)
        /\ last.signature # hexdigest(WEBHOOK_SECRET, last.payload))
    => /\ last.verified # "True"
       /\ last.parsed = "skipped"
       /\ last.handler = "none"
       /\ last.status # 200

\* a signature one hex digit away from the right one was answered 401
C1_Witness ==
    /\ Served
    /\ Truthy(WEBHOOK_SECRET)
    /\ Len(last.signature) = HexLen
    /\ IsAscii(last.signature)
    /\ Differences(last.signature, hexdigest(WEBHOOK_SECRET, last.payload)) = 1
    /\ last.payload.bytes = "json"
    /\ last.status = 401

\* C2: under a non-empty secret, the lowercase-hex HMAC-SHA256 of the body
\* verifies, so the request is not answered 401.
C2_RightSignatureAccepted ==
    (CorrectlySigned /\ Truthy(WEBHOOK_SECRET))
    => /\ last.verified = "True"
       /\ last.status # 401

\* a correctly signed event was verified and answered 200
C2_Witness ==
    /\ CorrectlySigned
    /\ Truthy(WEBHOOK_SECRET)
    /\ last.verified = "True"
    /\ last.status = 200

\* C3: verification fails closed: with the secret unset or empty, or with
\* the signature empty (header absent), verification returns false and the
\* request is answered 401, whatever the body and the other input.
C3_FailsClosed ==
    (Served /\ (~Truthy(WEBHOOK_SECRET) \/ last.signature = <<>>))
    => /\ last.verified = "False"
       /\ last.status = 401

\* the HMAC of the body under the empty secret was presented and refused
C3_Witness ==
    /\ Served
    /\ WEBHOOK_SECRET = Str("")
    /\ last.signature = hexdigest(WEBHOOK_SECRET, last.payload)
    /\ last.verified = "False"
    /\ last.status = 401

\* C4: verify_webhook_signature returns a boolean and raises nothing,
\* whatever the body and the signature string, so a request that is not
\* verified is answered 401 and never 500.
C4_VerifyNeverRaises ==
    Served
    => /\ last.verified \in {"True", "False"}
       /\ (last.verified # "True" => last.status = 401)

\* C5: a request whose verification returns false leaves the account
\* store, the transaction store and the webhook event log unchanged,
\* reaches no handler and no store method, and is answered 401.
C5_RejectedLeavesStores ==
    (Served /\ last.verified = "False")
    => /\ db = last.before
       /\ last.handler = "none"
       /\ last.calls = <<>>
       /\ last.status = 401

\* an account_connected event for a stored account, with a well-formed but
\* wrong signature, was refused
C5_Witness ==
    /\ Served
    /\ Truthy(WEBHOOK_SECRET)
    /\ last.verified = "False"
    /\ Len(last.signature) = HexLen
    /\ last.payload.bytes = "json"
    /\ Get(last.payload.doc, "event", None) = Str("mono.events.account_connected")
    /\ last.before.accounts # {}
    /\ last.before.transactions # {}
    /\ last.status = 401

\* the request does not carry the right signature for its body
WronglySigned == Served /\ ~(CorrectlySigned /\ Truthy(WEBHOOK_SECRET))

\* C6: verification comes before JSON decoding: a body that is not valid
\* JSON under an invalid signature is answered 401, and decoding is only
\* attempted once the signature verified.
C6_VerifyBeforeDecode ==
    Served
    => /\ (last.parsed # "skipped" => last.verified = "True")
       /\ ((WronglySigned /\ last.payload.bytes # "json") => last.status = 401)

\* C7: a correctly signed body that is not valid JSON is answered 400 and
\* changes neither the log nor the account and transaction stores.
C7_InvalidJsonIs400 ==
    (CorrectlySigned /\ Truthy(WEBHOOK_SECRET) /\ last.payload.bytes # "json")
    => /\ last.status = 400
       /\ db = last.before

\* the request is correctly signed and its body is a JSON object
SignedEvent ==
    /\ CorrectlySigned
    /\ Truthy(WEBHOOK_SECRET)
    /\ last.payload.bytes = "json"
    /\ IsDict(last.payload.doc)

EventType == Get(last.payload.doc, "event", None)

EventData == Get(last.payload.doc, "data", EmptyDict)

IsKnownEvent == EventType \in {Str(e) : e \in KnownEvents}

\* the account id at the place the event's kind keeps it, None when the
\* path to it does not exist
EventAccountId ==
    LET account == IF IsDict(EventData) THEN Get(EventData, "account", EmptyDict) ELSE None
    IN  CASE ~IsDict(EventData) -> None
          [] EventType = Str("mono.events.account_connected") -> Get(EventData, "id", None)
          [] EventType = Str("mono.accounts.jobs.update") -> Get(EventData, "account", None)
          [] EventType \in {Str("mono.events.account_updated"),
                            Str("mono.events.account_unlinked")} ->
                IF IsDict(account) THEN Get(account, "id", None) ELSE None
          [] OTHER -> None

\* rows were appended to the log, and nothing else happened to it
Appended(n) ==
    /\ Len(db.webhook_events) = Len(last.before.webhook_events) + n
    /\ SubSeq(db.webhook_events, 1, Len(last.before.webhook_events))
          = last.before.webhook_events

LogsEvent ==
    \/ EventType = Str("mono.events.account_updated")
    \/ /\ IsKnownEvent
       /\ IsStr(EventAccountId)
       /\ Truthy(EventAccountId)

\* the name a known event is logged under
EventKind ==
    CASE EventType = Str("mono.events.account_connected") -> "account_connected"
      [] EventType = Str("mono.events.account_updated")   -> "account_updated"
      [] EventType = Str("mono.events.account_unlinked")  -> "account_unlinked"
      [] EventType = Str("mono.accounts.jobs.update")     -> "job_update"
      [] OTHER                                            -> "unrecognized"

C10_ConnectedStoresAccount ==
    (/\ SignedEvent
     /\ EventType = Str("mono.events.account_connected")
     /\ IsDict(EventData)
     /\ IsStr(Get(EventData, "id", None))
     /\ Truthy(Get(EventData, "id", None))
     /\ IsStr(Get(EventData, "customer", None))
     /\ last.ok = AllOk)
    => /\ last.status = 200
       /\ LET account == get_account(db, Get(EventData, "id", None), TRUE)
          IN  /\ IsDict(account)
              /\ account.o.customer_id = Get(EventData, "customer", None)
              /\ account.o.status = Str("connected")

\* the accounts of a store state other than the one with id a
OtherAccounts(S, a) == {r \in S.accounts : r.id # a}

\* the transactions of a store state that belong to accounts other than a
OtherTransactions(S, a) == {r \in S.transactions : r.account_id # a}

\* a correctly signed account_connected event carrying a non-empty string
\* account id and a string customer id, handled while the engine works
SignedConnected ==
    /\ SignedEvent
    /\ EventType = Str("mono.events.account_connected")
    /\ IsDict(EventData)
    /\ IsStr(Get(EventData, "id", None))
    /\ Truthy(Get(EventData, "id", None))
    /\ IsStr(Get(EventData, "customer", None))
    /\ last.ok = AllOk

\* C11: after the same account_connected event has been applied twice
\* there is exactly one account row with the event's account id, it carries
\* the event's values, and the account and transaction stores after the
\* second delivery equal those after the first.
C11_ConnectedTwiceOneRow ==
    SignedConnected
    => LET second == handle_webhook(db, last.payload, last.signature, AllOk)
           rows   == {r \in second.db.accounts : r.id = Get(EventData, "id", None)}
       IN  /\ Cardinality(rows) = 1
           /\ \A r \in rows : /\ r.customer_id = Get(EventData, "customer", None)
                              /\ r.status = Str("connected")
           /\ second.db.accounts = db.accounts
           /\ second.db.transactions = db.transactions

\* a correctly signed account_unlinked event carrying a string account id,
\* handled while the engine works during remove_account
SignedUnlinked ==
    /\ SignedEvent
    /\ EventType = Str("mono.events.account_unlinked")
    /\ IsStr(EventAccountId)
    /\ last.ok.remove_account

\* C12: after an account_unlinked event for account A has been processed,
\* get_account(A) is absent and get_recent_transactions(A, n) is empty for
\* every n, while the other accounts and the transactions of other accounts
\* are what they were.
C12_UnlinkCascades ==
    SignedUnlinked
    => /\ last.status = 200
       /\ get_account(db, EventAccountId, TRUE) = None
       /\ \A n \in 0..MaxLimit :
             get_recent_transactions(db, EventAccountId, n, TRUE) = {<<>>}
       /\ OtherAccounts(db, EventAccountId) = OtherAccounts(last.before, EventAccountId)
       /\ OtherTransactions(db, EventAccountId)
             = OtherTransactions(last.before, EventAccountId)

\* an account with transactions was unlinked while another account with
\* transactions stayed
C12_Witness ==
    /\ SignedUnlinked
    /\ get_account(last.before, EventAccountId, TRUE) # None
    /\ get_recent_transactions(last.before, EventAccountId, 1, TRUE) # {<<>>}
    /\ OtherAccounts(db, EventAccountId) # {}
    /\ OtherTransactions(db, EventAccountId) # {}
    /\ get_account(db, EventAccountId, TRUE) = None

\* C15: a correctly signed event of a known kind whose account id is
\* missing or not a string (its data or account field may be null or not an
\* object) is answered 200, is appended to the webhook event log, and
\* leaves the account and transaction stores as they were (the engine
\* working throughout).
C15_BadIdSkippedAndLogged ==
    (SignedEvent /\ IsKnownEvent /\ ~IsStr(EventAccountId) /\ last.ok = AllOk)
    => /\ last.status = 200
       /\ Appended(1)
       /\ db.accounts = last.before.accounts
       /\ db.transactions = last.before.transactions

\* store_account, get_account or remove_account reported failure to the
\* handler of the request
StoreFailed ==
    \E i \in 1..Len(last.calls) :
        \/ /\ last.calls[i].method \in {"store_account", "remove_account"}
           /\ ~last.calls[i].ret
        \/ /\ last.calls[i].method = "get_account"
           /\ ~last.ok.get_account

SignedUpdated ==
    /\ SignedEvent
    /\ EventType = Str("mono.events.account_updated")
    /\ IsDict(EventData)
    /\ IsDict(Get(EventData, "account", EmptyDict))
    /\ IsDict(Get(EventData, "meta", EmptyDict))
    /\ IsStr(EventAccountId)

\* the account store of S holds a row with id a
Stored(S, a) == \E r \in S.accounts : r.id = a

\* C17: an account_updated event for an account id that is not in the
\* account store is answered 200 and leaves the account and transaction
\* stores as they were.
C17_UpdateOfUnknownIsNoOp ==
    (SignedUpdated /\ ~Stored(last.before, EventAccountId))
    => /\ last.status = 200
       /\ db.accounts = last.before.accounts
       /\ db.transactions = last.before.transactions

\* an update for an account that is not stored arrived at a store holding
\* another account
C17_Witness ==
    /\ SignedUpdated
    /\ ~Stored(last.before, EventAccountId)
    /\ last.before.accounts # {}
    /\ last.ok = AllOk
    /\ Appended(1)
    /\ last.status = 200

\* C18: an account_updated event for a stored account sets its status to
\* meta.data_status and its bank name and bank code to the event's
\* institution values, and leaves its other fields and every other account
\* unchanged, also when the event carries no institution.
C18_UpdateMergesStatusAndBank ==
    (/\ SignedUpdated
     /\ get_account(last.before, EventAccountId, TRUE) # None
     /\ IsStr(Get(Get(EventData, "meta", EmptyDict), "data_status", None))
     /\ last.ok = AllOk)
    => LET old         == get_account(last.before, EventAccountId, TRUE).o
           new         == get_account(db, EventAccountId, TRUE)
           account     == Get(EventData, "account", EmptyDict)
           institution == Get(account, "institution", EmptyDict)
       IN  /\ last.status = 200
           /\ IsDict(new)
           /\ new.o.status = Get(Get(EventData, "meta", EmptyDict), "data_status", None)
           /\ IsDict(institution)
                 => /\ new.o.bank_name = Get(institution, "name", old.bank_name)
                    /\ new.o.bank_code = Get(institution, "bankCode", old.bank_code)
           /\ \A c \in AccountColumns \ {"status", "bank_name", "bank_code"} :
                 new.o[c] = old[c]
           /\ OtherAccounts(db, EventAccountId) = OtherAccounts(last.before, EventAccountId)

\* the call being answered is a call of the store method `op`
Called(op) == last # NoRequest /\ last.op = op

\* the row store_transactions writes for a transaction of the provider
RowOf(account_id, txn) ==
    [id          |-> Get(txn, "_id", None),
     account_id  |-> account_id,
     amount      |-> Get(txn, "amount", None),
     type        |-> Get(txn, "type", None),
     description |-> Get(txn, "narration", None),
     reference   |-> Get(txn, "reference", None),
     date        |-> Get(txn, "date", None),
     balance     |-> Get(txn, "balance", None),
     category    |-> Get(txn, "category", None)]

\* position i holds the last transaction of the list with its id
LastOfItsId(transactions, i) ==
    \A j \in (i + 1)..Len(transactions) :
        Get(transactions[j], "_id", None) # Get(transactions[i], "_id", None)

\* C13: there is at most one transaction row per id, and after a
\* store_transactions call that returned true the row of every id of the
\* list carries the account id of the call and the fields of the last
\* transaction with that id, whether or not the id was stored before.
C13_TransactionUpsert ==
    /\ \A r1, r2 \in db.transactions : r1.id = r2.id => r1 = r2
    /\ (Called("store_transactions") /\ last.ret)
       => \A i \in 1..Len(last.args[2]) :
             LastOfItsId(last.args[2], i)
             => {r \in db.transactions : r.id = Get(last.args[2][i], "_id", None)}
                   = {RowOf(last.args[1], last.args[2][i])}

\* a stored transaction was stored again with another amount under another
\* account, and its row now carries both
C13_Witness ==
    /\ Called("store_transactions")
    /\ last.ret
    /\ \E i \in 1..Len(last.args[2]) :
          \E old \in last.before.transactions :
              /\ old.id = Get(last.args[2][i], "_id", None)
              /\ old.amount # Get(last.args[2][i], "amount", None)
              /\ old.account_id # last.args[1]
              /\ RowOf(last.args[1], last.args[2][i]) \in db.transactions

\* the transaction rows of an account
RowsOf(S, account_id) == {r \in S.transactions : r.account_id = account_id}

\* C14: get_recent_transactions(account, limit) returns rows of that
\* account only, each once, min(limit, number of its rows) of them, in
\* descending order of date, and no row it leaves out has a greater date
\* than a row it returns.
C14_RecentTransactions ==
    (Called("get_recent_transactions") /\ last.ok /\ Bindable(last.args[1]))
    => LET q    == last.ret
           rows == RowsOf(db, last.args[1])
       IN  /\ \A i \in DOMAIN q : q[i] \in rows
           /\ \A i, j \in DOMAIN q : i # j => q[i] # q[j]
           /\ Len(q) = Min(last.args[2], Cardinality(rows))
           /\ \A i, j \in DOMAIN q : i < j => ~DateLess(q[i].date, q[j].date)
           /\ \A r \in rows :
                 (\A i \in DOMAIN q : q[i] # r)
                 => \A i \in DOMAIN q : ~DateLess(q[i].date, r.date)

\* an account with transactions dated 2024-01-01, 2024-01-15 and
\* 2024-01-10 was asked for its 2 most recent: 01-15, then 01-10
C14_Witness ==
    /\ Called("get_recent_transactions")
    /\ last.ok
    /\ last.args[2] = 2
    /\ {r.date : r \in RowsOf(db, last.args[1])}
          = {Str("2024-01-01"), Str("2024-01-15"), Str("2024-01-10")}
    /\ Len(last.ret) = 2
    /\ last.ret[1].date = Str("2024-01-15")
    /\ last.ret[2].date = Str("2024-01-10")
    /\ RowsOf(db, Str("acc_2")) # {}
    /\ RowsOf(db, Str("acc_1")) # {}

\* the methods of the store that write
Writers == {"store_account", "store_webhook_event", "store_transactions", "remove_account"}

\* C19: no exception leaves a method of the store; a writer returns a
\* boolean, and false with the store left as it was when the engine fails;
\* get_account then returns None and get_recent_transactions an empty list,
\* and the reads never change the store.
C19_StoreNeverRaises ==
    (last # NoRequest /\ last.op # "handle_webhook")
    => /\ ~last.raised
       /\ last.op \in Writers
             => /\ last.ret \in BOOLEAN
                /\ ~last.ok => ~last.ret
                /\ ~last.ret => db = last.before
       /\ last.op = "get_account"
             => /\ ~last.ok => last.ret = None
                /\ db = last.before
       /\ last.op = "get_recent_transactions"
             => /\ ~last.ok => last.ret = <<>>
                /\ db = last.before

\* the engine failed during store_account for a stored account: false was
\* returned and the account is as it was
C19_Witness ==
    /\ Called("store_account")
    /\ ~last.ok
    /\ ~last.raised
    /\ ~last.ret
    /\ Stored(last.before, Get(last.args[1], "id", None))
    /\ db = last.before

\* C20: a store_transactions call either returns true with every
\* transaction of the list upserted, or returns false with no transaction
\* row added or changed.
C20_BatchAtomic ==
    Called("store_transactions")
    => IF last.ret
       THEN \A i \in 1..Len(last.args[2]) :
                \E r \in db.transactions :
                    /\ r.id = Get(last.args[2][i], "_id", None)
                    /\ r.account_id = last.args[1]
       ELSE db.transactions = last.before.transactions

\* a list whose first transaction is new and valid and whose second cannot
\* be stored was refused, and the first was not stored either
C20_Witness ==
    /\ Called("store_transactions")
    /\ last.ok
    /\ ~last.ret
    /\ Len(last.args[2]) = 2
    /\ Flushes(RowOf(last.args[1], last.args[2][1]), TransactionNotNull)
    /\ \A r \in last.before.transactions : r.id # Get(last.args[2][1], "_id", None)
    /\ db.transactions = last.before.transactions

\* C23: once an event has been handled and answered, its row in the
\* webhook event log has processed = true, and a row whose flag was true
\* before a request still has it true afterwards.
C23_ProcessedSetOnce ==
    /\ last = NoRequest => \A i \in 1..Len(db.webhook_events) : db.webhook_events[i].processed
    /\ Served => \A i \in 1..Len(last.before.webhook_events) :
                    (i <= Len(db.webhook_events) /\ last.before.webhook_events[i].processed)
                    => db.webhook_events[i].processed

\* C24: a job_update event, whatever its status, leaves the account store
\* and the transaction store as they were; it appends at most one row to
\* the webhook event log.
C24_JobUpdateOnlyLogs ==
    (SignedEvent /\ EventType = Str("mono.accounts.jobs.update"))
    => /\ db.accounts = last.before.accounts
       /\ db.transactions = last.before.transactions
       /\ Appended(1) \/ Appended(0)

\* a finished job for a stored account was logged and changed no account
C24_Witness ==
    /\ SignedEvent
    /\ EventType = Str("mono.accounts.jobs.update")
    /\ IsDict(EventData)
    /\ Get(EventData, "status", None) = Str("finished")
    /\ Stored(last.before, EventAccountId)
    /\ last.before.transactions # {}
    /\ Appended(1)
    /\ db.accounts = last.before.accounts
    /\ last.status = 200

\* some request can pass verify_webhook_signature under the configured secret
CanVerify ==
    \E payload \in VerifyBodies, signature \in Signatures :
        verify_webhook_signature(payload, signature) = "True"

\* C25: GET /health reports webhook_configured = true exactly when
\* signature verification can succeed for some request.
C25_HealthReflectsVerification ==
    last.op = "health_check"
    => /\ last.ret.status = 200
       /\ last.ret.body.webhook_configured <=> CanVerify

\* a transaction row of S whose account is not in the account store of S
Orphan(S, r) == r \in S.transactions /\ ~Stored(S, r.account_id)

\* C21 as claimed: in every reachable state every stored transaction
\* belongs to an account that is in the account store.
C21_NoOrphanTransactions ==
    \A r \in db.transactions : Stored(db, r.account_id)

\* C21 amended: a transaction without its account is in the store only
\* when it was such a row already before the operation, or when this
\* store_transactions call wrote it under an account id that is not stored;
\* remove_account and the webhook handlers leave no transaction behind.
C21_OrphansOnlyStored ==
    last # NoRequest
    => \A r \in db.transactions :
          Orphan(db, r)
          => \/ Orphan(last.before, r)
             \/ /\ last.op = "store_transactions"
                /\ r.account_id = last.args[1]
                /\ \E i \in 1..Len(last.args[2]) : Get(last.args[2][i], "_id", None) = r.id

\* remove_account took an account that had transactions, and no
\* transaction of it is left
C21_Witness ==
    /\ Called("remove_account")
    /\ last.ret
    /\ Stored(last.before, last.args[1])
    /\ RowsOf(last.before, last.args[1]) # {}
    /\ RowsOf(db, last.args[1]) = {}
    /\ db.transactions # {}
    /\ \A r \in db.transactions : ~Orphan(db, r)

\* the ids of the first n rows of the log of S
LogIds(S, n) == {S.webhook_events[i].id : i \in 1..n}

\* C22: the webhook event log is append-only: an operation leaves the rows
\* that were there, in place and unchanged, never shortens the log, and a
\* row it adds carries an id no earlier row has.
C22_LogAppendOnly ==
    last # NoRequest
    => /\ Len(db.webhook_events) >= Len(last.before.webhook_events)
       /\ SubSeq(db.webhook_events, 1, Len(last.before.webhook_events))
             = last.before.webhook_events
       /\ \A i \in 1..Len(db.webhook_events) :
             db.webhook_events[i].id \notin LogIds(db, i - 1)

\* a webhook request added a row to a log that already held one
C22_Witness ==
    /\ Served
    /\ Len(last.before.webhook_events) = 1
    /\ Len(db.webhook_events) = 2
    /\ db.webhook_events[1] = last.before.webhook_events[1]
    /\ db.webhook_events[2].id # db.webhook_events[1].id

\* the log rows the tool is asked for: those of the account when one is given
EventsFor(S, account_id) ==
    {i \in 1..Len(S.webhook_events) :
        account_id = None \/ S.webhook_events[i].account_id = account_id}

\* C26: the get_webhook_events tool succeeds, returns logged events (of the
\* given account only when one is given, at most `limit` of them) and
\* changes no store.
C26_ToolListsEvents ==
    Called("get_webhook_events")
    => /\ last.ret.success
       /\ Len(last.ret.events) <= last.args[2]
       /\ Len(last.ret.events) = Min(last.args[2], Cardinality(EventsFor(db, last.args[1])))
       /\ \A i \in 1..Len(last.ret.events) :
             \E j \in EventsFor(db, last.args[1]) : last.ret.events[i] = db.webhook_events[j]
       /\ db = last.before

\* a MonoClient call the tool awaited raised
RemoteRaised ==
    /\ last.op = "tool"
    /\ \E i \in 1..Len(last.requests) : last.remote[i].raises

\* C27 as claimed: whenever a remote client call a tool awaits raises, the
\* tool raises nothing and returns success = false with an error message.
C27_RemoteFailureIsFailure ==
    RemoteRaised
    => /\ ~last.raised
       /\ ~last.ret.success
       /\ last.ret.error # ""

\* the secondary BVN lookup of get_account_details raised
BvnLookupRaised ==
    /\ last.name = "get_account_details"
    /\ ~last.remote[1].raises
    /\ Len(last.requests) = 2
    /\ last.remote[2].raises

\* C27 amended: whenever a remote client call a tool awaits raises, the tool
\* raises nothing; it returns success = false with the exception as error
\* message, except that get_account_details, when only its BVN lookup
\* raises, returns success = true with bvn_status "lookup_failed".
C27_RemoteFailureHandled ==
    RemoteRaised
    => /\ ~last.raised
       /\ IF BvnLookupRaised
          THEN last.ret.success /\ last.ret.bvn_status = "lookup_failed"
          ELSE /\ ~last.ret.success
               /\ \E i \in 1..Len(last.requests) :
                     last.remote[i].raises /\ last.ret.error = last.remote[i].exc

\* get_nigerian_banks met a timeout and returned the failure dict
C27_Witness ==
    /\ last.op = "tool"
    /\ last.name = "get_nigerian_banks"
    /\ last.remote[1] = Raise("TimeoutException")
    /\ ~last.raised
    /\ ~last.ret.success
    /\ last.ret.error = "TimeoutException"

\* the verification awaited by initiate_payment returned a successful response
VerificationSucceeded ==
    /\ ~last.remote[1].raises
    /\ IsDict(last.remote[1].json)
    /\ Truthy(Get(last.remote[1].json, "status", None))
    /\ "data" \in DOMAIN last.remote[1].json.o

\* C30: initiate_payment sends the payment-initiation request only after
\* resolve_account_name returned a successful response in the same call;
\* when the verification fails or raises, only the verification was
\* requested and the tool returns success = false.
C30_PaymentOnlyAfterVerification ==
    (last.op = "tool" /\ last.name = "initiate_payment")
    => /\ ~last.raised
       /\ last.requests[1] = "resolve_account_name"
       /\ \A i \in 1..Len(last.requests) :
             last.requests[i] = "initiate_payment" => i = 2 /\ VerificationSucceeded
       /\ ~VerificationSucceeded
             => last.requests = <<"resolve_account_name">> /\ ~last.ret.success

\* the provider refused the recipient account: no payment was requested
C30_Witness ==
    /\ last.op = "tool"
    /\ last.name = "initiate_payment"
    /\ ~last.remote[1].raises
    /\ Get(last.remote[1].json, "status", None) = Bool(FALSE)
    /\ ~last.remote[2].raises
    /\ HasData(last.remote[2].json)
    /\ last.requests = <<"resolve_account_name">>
    /\ ~last.ret.success

\* C28: racing an account_unlinked event for the same account id,
\* account_updated never makes an Account row exist that did not exist at
\* the moment of its write, and once the unlink's delete has completed the
\* account is absent when both handlers have finished.
C28_UpdateNeverResurrects ==
    (last.op = "concurrent" /\ last.other = "account_unlinked")
    => /\ ~last.created
       /\ (BothDone /\ last.removed) => ~Stored(db, RaceAccount)

\* the accounts table after the two events, one handler after the other
SequentialAccounts ==
    LET udata == last.udata
        cdata == RaceConnectedData
        uc == handle_account_connected(handle_account_updated(last.before, udata, AllOk).db,
                                       cdata, AllOk).db.accounts
        cu == handle_account_updated(handle_account_connected(last.before, cdata, AllOk).db,
                                     udata, AllOk).db.accounts
    IN  {uc, cu}

\* C29: when an account_updated and an account_connected event for the same
\* existing account are processed concurrently, the final Account rows are
\* those of one of the two sequential orders (so account_updated never
\* writes back a stale customer id).
C29_ConcurrentEqualsSequential ==
    (BothDone /\ last.other = "account_connected" /\ Stored(last.before, RaceAccount))
    => db.accounts \in SequentialAccounts

====
